---- MODULE Spec2Model ----
(***************************************************************************)
(* Balloon Analogue Risk Task (multi-risk): the state machine of Control   *)
(* and its six states, the pop draw of Play.getEvent, extractProb and      *)
(* populateRisks.  Rendering, console prompts and the clock are left out.  *)
(***************************************************************************)
EXTENDS Integers, Sequences, FiniteSets, TLC

\* ------------------------------------------------------------- bounds
\* Largest round count the experimenter enters (getNumRounds allows 1..240).
MaxRounds == 2
\* Largest number of events one pygame.event.get() call returns.
MaxQueue == 2
\* Largest round count populateRisks is stepped through on its own.
MaxDist == 4

\* ------------------------------------------------------------- constants
\* Upper end of the draw random.randint(10 - X + 1, 10), and the value that pops.
DrawTop == 10
\* Value extractProb appends to every tier's list.
Sentinel == 1
\* Trigger codes of Popped.enter and Cashed.enter.
TriggerPopped == 9
TriggerCashed == 7

None == "None"
IndexError == "IndexError"

risks == <<"high", "medium", "low">>
Tiers == {"high", "medium", "low"}
StateNames == {"start", "setup", "play", "popped", "cashed", "exit"}
Events == {"QUIT", "VIDEORESIZE", "K_RIGHT", "K_LEFT", "K_RETURN", "K_q"}

\* ------------------------------------------------------------- Util.py
\* The three lines of a probabilities_risk.txt, after split and int: one entry
\* per tier, each between 1 and 10.
ProbFile ==
  [high   |-> <<2>>,
   medium |-> <<3>>,
   low    |-> <<10>>]

extractProb_NoSentinel(file) ==
  [r \in Tiers |-> file[r]]

extractProb(file) ==
  [r \in Tiers |-> Append(file[r], Sentinel)]

\* Python list indexing list[i]: negative indices count from the end, and an
\* index outside -len..len-1 raises IndexError.
InRange(list, i) == i >= 0 - Len(list) /\ i < Len(list)

PyIndex(list, i) ==
  IF i >= 0 /\ i < Len(list) THEN list[i + 1]
  ELSE IF i < 0 /\ i >= 0 - Len(list) THEN list[Len(list) + i + 1]
  ELSE IndexError

\* Python's  c and a or b  for integers a, b.
AndOr(c, a, b) == IF c /\ a # 0 THEN a ELSE b

upper_bound_NoRemainder(i, num_rounds) == num_rounds \div 3

upper_bound_RemainderAll(i, num_rounds) == (num_rounds \div 3) + (num_rounds % 3)

upper_bound(i, num_rounds) ==
  AndOr(i = 1, (num_rounds \div 3) + (num_rounds % 3), num_rounds \div 3)

EmptySlots(output) == {k \in 1..Len(output) : output[k] = None}

\* The tiers populateRisks places, in the order it places them.
RECURSIVE Quota(_, _)
Quota(i, num_rounds) ==
  IF i > 2 THEN <<>>
  ELSE [k \in 1..upper_bound(i, num_rounds) |-> risks[i + 1]] \o Quota(i + 1, num_rounds)

\* Every array the placement loop can end with, from the arrays outs.
RECURSIVE PlaceAll(_, _)
PlaceAll(outs, todo) ==
  IF todo = <<>> THEN outs
  ELSE PlaceAll(UNION {{[o EXCEPT ![k] = Head(todo)] : k \in EmptySlots(o)} : o \in outs},
                Tail(todo))

\* The set of arrays populateRisks(num_rounds) can return.
populateRisks(num_rounds) ==
  PlaceAll({[k \in 1..num_rounds |-> None]}, Quota(0, num_rounds))

\* index = None in populateRisks: no index drawn yet, written as an integer no
\* draw can give so that it compares with the indices.
NoIndex == 0 - 1

randint_HalfOpen(a, b) == a..(b - 1)

randint(a, b) == a..b

\* ------------------------------------------------------------- state
VARIABLES
  pc,          \* mainGameLoop: "eventLoop" inside a tick, "terminated" after the loop, "crashed" after an exception
  drained,     \* events of this tick's queue already dispatched
  app_done,    \* Control.done
  state_name,  \* Control.state_name, the key of Control.state in state_dict
  flag,        \* quit, done, next, previous of each of the six state objects
  self,        \* the attributes the active state object holds (cleanup deletes them on exit)
  io,          \* the socket, the CSV file, the triggers sent and the rows written
  draw,        \* the value random.randint returned for the pump just dispatched, 0 otherwise
  event,       \* the event just dispatched, None after update
  ghost,       \* history: configured rounds, Play entries, cumulative winnings at round entry, pops and QUIT in the round
  pr           \* populateRisks stepped through on its own: its locals

vars == <<pc, drained, app_done, state_name, flag, self, io, draw, event, ghost, pr>>

\* States.__init__ and the next each subclass sets in its __init__.
InitNext(s) ==
  CASE s = "start" -> "setup"
    [] s = "setup" -> "play"
    [] s \in {"popped", "cashed"} -> "play"
    [] OTHER -> None

InitFlag ==
  [s \in StateNames |-> [quit |-> FALSE, done |-> FALSE, next |-> InitNext(s), previous |-> None]]

\* ------------------------------------------------------------- exit payloads
StartExit(s) == <<s.user_ID, s.num_rounds, s.active_response>>

SetupExit_NoActiveResponse(s) ==
  <<s.user_ID, s.socket, s.csv_file, s.csv_writer, s.probs, s.num_rounds,
    s.overall_total, s.round_risks>>

SetupExit(s) ==
  <<s.user_ID, s.socket, s.csv_file, s.csv_writer, s.probs, s.num_rounds,
    s.overall_total, s.round_risks, s.active_response>>

\* Python's  int * bool.
TimesBool(n, b) == IF b THEN n ELSE 0

PlayRow_KeepsWinnings(s) ==
  [num_keypresses  |-> s.balloon_size,
   round_money_won |-> s.round_total,
   total_money_won |-> s.overall_total,
   popped          |-> s.popped,
   risk            |-> s.risk]

\* The row Play.exit hands to csv_writer.writerow.
PlayRow(s) ==
  [num_keypresses  |-> s.balloon_size,
   round_money_won |-> TimesBool(s.round_total, ~s.popped),
   total_money_won |-> s.overall_total,
   popped          |-> s.popped,
   risk            |-> s.risk]

PlayExit_NoDecrement(s) ==
  <<s.user_ID, s.socket, s.csv_file, s.csv_writer, s.probs, s.num_rounds_left,
    s.overall_total, s.round_total, s.balloon_size, s.round_risks, s.risk, s.active_response>>

PlayExit(s) ==
  <<s.user_ID, s.socket, s.csv_file, s.csv_writer, s.probs, s.num_rounds_left - 1,
    s.overall_total, s.round_total, s.balloon_size, s.round_risks, s.risk, s.active_response>>

EndRoundExit(s) ==
  <<s.user_ID, s.socket, s.csv_file, s.csv_writer, s.probs, s.num_rounds_left,
    s.overall_total, s.round_risks, s.active_response>>

\* state.exit(): the payload, and the world after it.
exit(name, s, w) ==
  CASE name = "start" -> [args |-> StartExit(s), io |-> w]
    [] name = "setup" -> [args |-> SetupExit(s), io |-> w]
    [] name = "play" -> [args |-> PlayExit(s), io |-> [w EXCEPT !.rows = Append(@, PlayRow(s))]]
    [] name \in {"popped", "cashed"} -> [args |-> EndRoundExit(s), io |-> w]
    [] OTHER -> [args |-> None, io |-> w]

\* ------------------------------------------------------------- enter
\* The number of values enter unpacks from args (Exit slices args[1:4]).
Unpacks(name, args) ==
  CASE name \in {"start", "setup"} -> Len(args) = 3
    [] name = "play" -> Len(args) = 9
    [] name \in {"popped", "cashed"} -> Len(args) = 12
    [] OTHER -> Len(args) >= 4

StartEnter(args) ==
  [user_ID |-> args[1], num_rounds |-> args[2], active_response |-> args[3]]

setupSocket(w) == [w EXCEPT !.socket = "open"]
setupCSV(w) == [w EXCEPT !.csv_file = "open"]
sendall(w, code) == [w EXCEPT !.sent = Append(@, code)]
close_SocketOnly(w) ==
  [w EXCEPT !.socket = "closed", !.closes = [socket |-> @.socket + 1, csv_file |-> @.csv_file]]

close(w) ==
  [w EXCEPT !.socket = "closed", !.csv_file = "closed",
            !.closes = [socket |-> @.socket + 1, csv_file |-> @.csv_file + 1]]

SetupEnter(args, round_risks) ==
  [user_ID |-> args[1], num_rounds |-> args[2], active_response |-> args[3],
   socket |-> "socket", csv_file |-> "csv_file", csv_writer |-> "csv_writer",
   probs |-> extractProb(ProbFile), overall_total |-> 0, round_risks |-> round_risks]

RiskIndex_OffByOne(round_risks, num_rounds_left) == Len(round_risks) - num_rounds_left - 1

\* The index Play.enter reads round_risks at.
RiskIndex(round_risks, num_rounds_left) == Len(round_risks) - num_rounds_left

PlayEnter(args) ==
  [user_ID |-> args[1], socket |-> args[2], csv_file |-> args[3], csv_writer |-> args[4],
   probs |-> args[5], num_rounds_left |-> args[6], overall_total |-> args[7],
   round_risks |-> args[8], active_response |-> args[9],
   round_total |-> 0, popped |-> FALSE, cashed |-> FALSE, balloon_size |-> 0,
   risk |-> PyIndex(args[8], RiskIndex(args[8], args[6]))]

EndRoundEnter_Misread(args) ==
  [user_ID |-> args[1], socket |-> args[2], csv_file |-> args[3], csv_writer |-> args[4],
   probs |-> args[5], num_rounds_left |-> args[6], overall_total |-> args[8],
   round_total |-> args[7], balloon_size |-> args[9], round_risks |-> args[10],
   risk |-> args[11], active_response |-> args[12]]

EndRoundEnter(args) ==
  [user_ID |-> args[1], socket |-> args[2], csv_file |-> args[3], csv_writer |-> args[4],
   probs |-> args[5], num_rounds_left |-> args[6], overall_total |-> args[7],
   round_total |-> args[8], balloon_size |-> args[9], round_risks |-> args[10],
   risk |-> args[11], active_response |-> args[12]]

\* EndRound.enter's choice of next: exit once no round is left.
EndRoundNext(num_rounds_left, next) == IF num_rounds_left = 0 THEN "exit" ELSE next

ExitEnter(args) == [socket |-> args[2], csv_file |-> args[3], csv_writer |-> args[4]]

\* EndRound.enter, then the trigger that tells the EEG the balloon popped.
PoppedEnter(args, next, w) ==
  [self |-> EndRoundEnter(args), next |-> EndRoundNext(args[6], next),
   io |-> sendall(w, TriggerPopped)]

CashedEnter_PoppedCode(args, next, w) ==
  [self |-> EndRoundEnter(args), next |-> EndRoundNext(args[6], next),
   io |-> sendall(w, TriggerPopped)]

\* EndRound.enter, then the trigger that tells the EEG the player cashed in.
CashedEnter(args, next, w) ==
  [self |-> EndRoundEnter(args), next |-> EndRoundNext(args[6], next),
   io |-> sendall(w, TriggerCashed)]

\* state.enter(args): the attributes of the entered state, its next, and the world after it.
enter(name, args, next, w, round_risks) ==
  CASE name = "start" -> [self |-> StartEnter(args), next |-> next, io |-> w]
    [] name = "setup" ->
         [self |-> SetupEnter(args, round_risks), next |-> next, io |-> setupCSV(setupSocket(w))]
    [] name = "play" -> [self |-> PlayEnter(args), next |-> "popped", io |-> w]
    [] name = "popped" -> PoppedEnter(args, next, w)
    [] name = "cashed" -> CashedEnter(args, next, w)
    [] OTHER -> [self |-> ExitEnter(args), next |-> next, io |-> close(w)]

\* ------------------------------------------------------------- getEvent
StartGetEvent(f, e) ==
  IF e = "K_q" THEN [f EXCEPT !.quit = TRUE]
  ELSE IF e = "K_RETURN" THEN [f EXCEPT !.done = TRUE]
  ELSE f

Pops_AtMostTen(d) == d <= DrawTop

\* random.randint(10 - X + 1, 10) == 10
Pops(d) == d = DrawTop

DrawRange_OneToTen(X) == randint(1, DrawTop)

DrawRange(X) == randint(DrawTop - X + 1, DrawTop)

Pump_SizeOnly(s, d) ==
  IF ~Pops(d)
    THEN [s EXCEPT !.popped = FALSE, !.balloon_size = @ + 1]
    ELSE [s EXCEPT !.popped = TRUE]

Pump_GrowsOnPop(s, d) ==
  IF ~Pops(d)
    THEN [s EXCEPT !.popped = FALSE, !.round_total = @ + 1, !.balloon_size = @ + 1]
    ELSE [s EXCEPT !.popped = TRUE, !.balloon_size = @ + 1]

\* K_RIGHT in Play, the draw being d.
Pump(s, d) ==
  IF ~Pops(d)
    THEN [s EXCEPT !.popped = FALSE, !.round_total = @ + 1, !.balloon_size = @ + 1]
    ELSE [s EXCEPT !.popped = TRUE]

PumpFlag_AlwaysEnds(f, d) == [f EXCEPT !.next = "popped", !.done = TRUE]

PumpFlag(f, d) ==
  IF ~Pops(d) THEN f ELSE [f EXCEPT !.next = "popped", !.done = TRUE]

\* K_LEFT in Play.
Cash(s) == [s EXCEPT !.overall_total = @ + s.round_total, !.cashed = TRUE]

CashFlag_ToExit(f) == [f EXCEPT !.next = "exit", !.done = TRUE]

CashFlag(f) == [f EXCEPT !.next = "cashed", !.done = TRUE]

PlayGetEvent(s, f, e, d) ==
  IF e = "K_RIGHT" THEN [self |-> Pump(s, d), flag |-> PumpFlag(f, d)]
  ELSE IF e = "K_LEFT" THEN [self |-> Cash(s), flag |-> CashFlag(f)]
  ELSE [self |-> s, flag |-> f]

EndRoundGetEvent(f, e) == IF e = "K_RETURN" THEN [f EXCEPT !.done = TRUE] ELSE f

ExitGetEvent(f, e) == IF e = "K_RETURN" THEN [f EXCEPT !.quit = TRUE] ELSE f

\* self.state.getEvent(event)
getEvent(name, s, f, e, d) ==
  CASE name = "start" -> [self |-> s, flag |-> StartGetEvent(f, e)]
    [] name = "play" -> PlayGetEvent(s, f, e, d)
    [] name \in {"popped", "cashed"} -> [self |-> s, flag |-> EndRoundGetEvent(f, e)]
    [] name = "exit" -> [self |-> s, flag |-> ExitGetEvent(f, e)]
    [] OTHER -> [self |-> s, flag |-> f]

\* The table entry a pump in Play reads.
TableEntry(s) == PyIndex(s.probs[s.risk], s.balloon_size)

\* ------------------------------------------------------------- Control
InitIo ==
  [socket |-> "unopened", csv_file |-> "unopened", sent |-> <<>>, rows |-> <<>>,
   closes |-> [socket |-> 0, csv_file |-> 0]]

PrIdle ==
  [pc |-> "idle", num_rounds |-> 0, i |-> 0, j |-> 0, output |-> <<>>, index |-> NoIndex, valid |-> FALSE]

\* main() up to mainGameLoop: the prompts, the six state objects, setupStates entering start.
Init ==
  /\ pc = "eventLoop"
  /\ drained = 0
  /\ app_done = FALSE
  /\ state_name = "start"
  /\ flag = InitFlag
  /\ \E n \in 1..MaxRounds :
       /\ self = StartEnter(<<"0001", n, TRUE>>)
       /\ ghost = [num_rounds |-> n, playEntries |-> 0, overallAtEntry |-> 0, popsInRound |-> 0, quitInRound |-> 0]
  /\ io = InitIo
  /\ draw = 0
  /\ event = None
  /\ pr = PrIdle

\* The draws open to the event e in the active state: one per outcome of random.randint.
Draws(e) ==
  IF state_name = "play" /\ e = "K_RIGHT" THEN DrawRange(TableEntry(self)) ELSE {0}

\* History kept on dispatching e: a pump popped in this round, a QUIT arrived
\* while the round had not ended.
GhostEvent(g, e, d, s) ==
  [g EXCEPT !.popsInRound = IF d # 0 /\ s.popped THEN 1 ELSE @,
            !.quitInRound = IF e = "QUIT" /\ state_name = "play" /\ ~flag["play"].done
                              THEN 1 ELSE @]

\* One iteration of the for loop of Control.eventLoop, the event being e.
eventLoop(e) ==
  /\ pc = "eventLoop"
  /\ drained < MaxQueue
  /\ drained' = drained + 1
  /\ event' = e
  /\ app_done' = IF e = "QUIT" THEN TRUE ELSE app_done
  /\ IF state_name = "play" /\ e = "K_RIGHT" /\ ~InRange(self.probs[self.risk], self.balloon_size)
       THEN /\ pc' = "crashed"
            /\ draw' = 0
            /\ UNCHANGED <<flag, self, ghost>>
       ELSE /\ pc' = pc
            /\ \E d \in Draws(e) :
                 LET r == getEvent(state_name, self, flag[state_name], e, d) IN
                 /\ draw' = d
                 /\ self' = r.self
                 /\ flag' = [flag EXCEPT ![state_name] = r.flag]
                 /\ ghost' = GhostEvent(ghost, e, d, r.self)
  /\ UNCHANGED <<state_name, io, pr>>

\* self.state.update(screen): Setup ends itself, the other states draw.
StateUpdate(name, f) == IF name = "setup" THEN [f EXCEPT !.done = TRUE] ELSE f

\* History kept on entering a state.
GhostEnter(g, name, s) ==
  IF name = "play"
    THEN [g EXCEPT !.playEntries = @ + 1, !.overallAtEntry = s.overall_total, !.popsInRound = 0, !.quitInRound = 0]
    ELSE g

\* Control.changeState, then the entered state's update.
changeState ==
  LET previous == state_name
      name == flag[state_name].next
      out == exit(previous, self, io)
  IN IF name \notin StateNames \/ ~Unpacks(name, out.args)
       THEN /\ pc' = "crashed"
            /\ io' = out.io
            /\ flag' = [flag EXCEPT ![previous].done = FALSE]
            /\ UNCHANGED <<state_name, self, ghost, app_done>>
       ELSE \E round_risks \in (IF name = "setup" THEN populateRisks(out.args[2]) ELSE {None}) :
              LET in == enter(name, out.args, flag[name].next, out.io, round_risks) IN
              IF name = "play" /\ in.self.risk = IndexError
                THEN /\ pc' = "crashed"
                     /\ io' = out.io
                     /\ flag' = [flag EXCEPT ![previous].done = FALSE]
                     /\ UNCHANGED <<state_name, self, ghost, app_done>>
                ELSE /\ state_name' = name
                     /\ self' = in.self
                     /\ io' = in.io
                     /\ flag' = [[flag EXCEPT ![previous].done = FALSE]
                                   EXCEPT ![name] = StateUpdate(name,
                                            [@ EXCEPT !.next = in.next, !.previous = previous])]
                     /\ ghost' = GhostEnter(ghost, name, in.self)
                     /\ pc' = IF app_done THEN "terminated" ELSE "eventLoop"
                     /\ UNCHANGED app_done

\* The rest of one iteration of mainGameLoop, after the event queue is drained:
\* Control.update, and the test of the while loop.
update ==
  /\ pc = "eventLoop"
  /\ drained' = 0
  /\ draw' = 0
  /\ event' = None
  /\ IF flag[state_name].quit
       THEN /\ app_done' = TRUE
            /\ pc' = "terminated"
            /\ flag' = [flag EXCEPT ![state_name] = StateUpdate(state_name, @)]
            /\ UNCHANGED <<state_name, self, io, ghost>>
       ELSE IF flag[state_name].done
         THEN changeState
         ELSE /\ pc' = IF app_done THEN "terminated" ELSE "eventLoop"
              /\ flag' = [flag EXCEPT ![state_name] = StateUpdate(state_name, @)]
              /\ UNCHANGED <<state_name, self, io, ghost, app_done>>
  /\ UNCHANGED pr

Next ==
  \/ \E e \in Events : eventLoop(e)
  \/ update

Spec == Init /\ [][Next]_vars

\* ------------------------------------------------------------- populateRisks, stepped
InitRisks ==
  /\ pc = "idle"
  /\ drained = 0
  /\ app_done = FALSE
  /\ state_name = "start"
  /\ flag = InitFlag
  /\ self = <<>>
  /\ ghost = <<>>
  /\ io = InitIo
  /\ draw = 0
  /\ event = None
  /\ \E n \in 1..MaxDist :
       pr = [pc |-> "for_i", num_rounds |-> n, i |-> 0, j |-> 0,
             output |-> [k \in 1..n |-> None], index |-> NoIndex, valid |-> FALSE]

UnchangedGame == UNCHANGED <<pc, drained, app_done, state_name, flag, self, io, draw, event, ghost>>

\* for i in range(0, 3): the loop header.
PRForI ==
  /\ pr.pc = "for_i"
  /\ pr' = IF pr.i < 3 THEN [pr EXCEPT !.pc = "for_j", !.j = 0]
                       ELSE [pr EXCEPT !.pc = "returned"]
  /\ UnchangedGame

\* for j in range(0, upper_bound): the loop header, and valid = False, index = None.
PRForJ ==
  /\ pr.pc = "for_j"
  /\ pr' = IF pr.j < upper_bound(pr.i, pr.num_rounds)
             THEN [pr EXCEPT !.pc = "while", !.valid = FALSE, !.index = NoIndex]
             ELSE [pr EXCEPT !.pc = "for_i", !.i = @ + 1]
  /\ UnchangedGame

\* One iteration of  while not valid.
PRDraw ==
  /\ pr.pc = "while"
  /\ ~pr.valid
  /\ \E index \in randint(0, pr.num_rounds - 1) :
       pr' = [pr EXCEPT !.index = index, !.valid = (pr.output[index + 1] = None)]
  /\ UnchangedGame

\* output[index] = risks[i], after the while loop.
PRAssign ==
  /\ pr.pc = "while"
  /\ pr.valid
  /\ pr' = [pr EXCEPT !.output[pr.index + 1] = risks[pr.i + 1], !.j = @ + 1, !.pc = "for_j"]
  /\ UnchangedGame

NextRisks ==
  \/ PRForI
  \/ PRForJ
  \/ PRDraw
  \/ PRAssign

SpecRisks == InitRisks /\ [][NextRisks]_vars

\* populateRisks run to its end: the interpreter executes each statement it
\* stands at, and random.randint is fair, giving every index of 0..N-1 again
\* and again while the while loop keeps asking.
SpecRisksFair ==
  /\ SpecRisks
  /\ WF_vars(PRForI)
  /\ WF_vars(PRForJ)
  /\ WF_vars(PRAssign)
  /\ \A index \in 0..(MaxDist - 1) : WF_vars(PRDraw /\ pr'.index = index)

\* ------------------------------------------------------------- the pop draw on its own
\* Play just entered for the first of three rounds, the file giving every tier
\* the one entry X, for every X in 1..10 and every schedule of three rounds.
InitPop ==
  /\ pc = "eventLoop"
  /\ drained = 0
  /\ app_done = FALSE
  /\ state_name = "play"
  /\ flag = [InitFlag EXCEPT !["play"].next = "popped", !["play"].previous = "setup"]
  /\ \E X \in 1..DrawTop, round_risks \in populateRisks(3) :
       self = PlayEnter(<<"0001", "socket", "csv_file", "csv_writer",
                          extractProb([r \in Tiers |-> <<X>>]), 3, 0, round_risks, TRUE>>)
  /\ ghost = [num_rounds |-> 3, playEntries |-> 1, overallAtEntry |-> 0, popsInRound |-> 0, quitInRound |-> 0]
  /\ io = setupCSV(setupSocket(InitIo))
  /\ draw = 0
  /\ event = None
  /\ pr = PrIdle

\* Pumps, and the updates between them.
NextPop ==
  \/ eventLoop("K_RIGHT")
  \/ update

SpecPop == InitPop /\ [][NextPop]_vars

\* ------------------------------------------------------------- properties
Count(seq, v) == Cardinality({k \in 1..Len(seq) : seq[k] = v})

\* The slots populateRisks has assigned by the time it stands at pr.pc.
RECURSIVE QuotaBelow(_, _)
QuotaBelow(i, n) ==
  IF i = 0 THEN 0
  ELSE QuotaBelow(i - 1, n) + (IF i - 1 = 1 THEN (n \div 3) + (n % 3) ELSE n \div 3)

Assigned == QuotaBelow(pr.i, pr.num_rounds) + (IF pr.pc \in {"for_j", "while"} THEN pr.j ELSE 0)

\* C1: populateRisks(N) returns N slots, each holding one tier, with N div 3
\* high, N div 3 low and N div 3 + N mod 3 medium; while it runs, the slots
\* filled are as many as the assignments made, so no slot is assigned twice.
C1_Balance ==
  /\ Len(pr.output) = pr.num_rounds
  /\ Cardinality({k \in 1..Len(pr.output) : pr.output[k] # None}) = Assigned
  /\ pr.pc = "returned" =>
       /\ \A k \in 1..pr.num_rounds : pr.output[k] \in Tiers
       /\ Count(pr.output, "high") = pr.num_rounds \div 3
       /\ Count(pr.output, "low") = pr.num_rounds \div 3
       /\ Count(pr.output, "medium") = (pr.num_rounds \div 3) + (pr.num_rounds % 3)

C1_Witness ==
  /\ pr.pc = "returned"
  /\ pr.num_rounds = 4
  /\ pr.output = <<"medium", "low", "high", "medium">>

\* The arrays the stepped loop returns are the ones Setup.enter chooses among.
StepperAgrees == pr.pc = "returned" => pr.output \in populateRisks(pr.num_rounds)

\* A step of eventLoop dispatches one event; a step of update ends the tick.
EventStep == drained' = drained + 1
UpdateStep == drained' = 0
InRound == state_name \in {"play", "popped", "cashed"}
EndOfRound == state_name \in {"popped", "cashed"}

Edges ==
  {<<"start", "setup">>, <<"setup", "play">>, <<"play", "popped">>, <<"play", "cashed">>,
   <<"popped", "play">>, <<"cashed", "play">>, <<"popped", "exit">>, <<"cashed", "exit">>}

\* C2: one of the six states is active, and the active state changes only along
\* start->setup (after Enter), setup->play (at the next update, whatever the
\* input), play->popped, play->cashed, popped->play, cashed->play, popped->exit,
\* cashed->exit; nothing leaves exit, Enter in exit ends the loop, and q in
\* start ends the loop with setup never entered.
C2_Transitions ==
  [][/\ state_name' \in StateNames
     /\ state_name' # state_name =>
          /\ <<state_name, state_name'>> \in Edges
          /\ UpdateStep
          /\ flag'[state_name'].previous = state_name
     /\ (state_name = "start" /\ state_name' = "setup") => flag["start"].done
     /\ (state_name = "start" /\ EventStep /\ event' = "K_RETURN") => flag'["start"].done
     /\ (state_name = "setup" /\ UpdateStep) => state_name' = "play"
     /\ (state_name = "exit" /\ EventStep /\ event' = "K_RETURN") => flag'["exit"].quit
     /\ (state_name = "exit" /\ flag["exit"].quit /\ UpdateStep) => pc' = "terminated"
     /\ (state_name = "start" /\ EventStep /\ event' = "K_q") => flag'["start"].quit
     /\ flag["start"].quit =>
          /\ state_name' = "start"
          /\ io'.socket = "unopened"
          /\ UpdateStep => pc' = "terminated"
    ]_vars

C2_Witness ==
  /\ pc = "terminated"
  /\ state_name = "exit"
  /\ flag["exit"].quit
  /\ flag["exit"].previous = "cashed"
  /\ flag["play"].previous = "popped"

\* C3: the remaining-rounds counter is N at the first Play entry, every Play
\* exit lowers it by exactly 1, it is never negative, Enter at the end of a
\* round leads to exit exactly when it is 0 and to Play (with the same counter)
\* otherwise, and when Exit is active Play has been entered exactly N times.
C3_Rounds ==
  [][/\ (state_name' = "play" /\ ghost'.playEntries = 1) =>
          self'.num_rounds_left = ghost'.num_rounds
     /\ (state_name = "play" /\ state_name' # "play") =>
          self'.num_rounds_left = self.num_rounds_left - 1
     /\ (state_name' \in {"play", "popped", "cashed"}) => self'.num_rounds_left >= 0
     /\ (EndOfRound /\ state_name' # state_name) =>
          /\ state_name' = "exit" <=> self.num_rounds_left = 0
          /\ state_name' = "play" <=> self.num_rounds_left > 0
          /\ state_name' = "play" => self'.num_rounds_left = self.num_rounds_left
     /\ (EndOfRound /\ flag[state_name].done /\ UpdateStep) => state_name' # state_name
     /\ state_name' = "exit" => ghost'.playEntries = ghost'.num_rounds
    ]_vars

C3_Witness ==
  /\ state_name = "exit"
  /\ ghost.num_rounds = 2
  /\ ghost.playEntries = 2
  /\ Len(io.rows) = 2

\* C4: a pump that does not pop adds exactly 1 to balloon_size and to
\* round_total, a pump that pops changes neither, both are 0 when Play is
\* entered, and round_total = balloon_size whenever Play is active.
C4_Payout ==
  [][/\ (state_name = "play" /\ EventStep /\ event' = "K_RIGHT") =>
          IF self'.popped
            THEN /\ self'.balloon_size = self.balloon_size
                 /\ self'.round_total = self.round_total
            ELSE /\ self'.balloon_size = self.balloon_size + 1
                 /\ self'.round_total = self.round_total + 1
     /\ (state_name # "play" /\ state_name' = "play") =>
          /\ self'.balloon_size = 0
          /\ self'.round_total = 0
     /\ state_name' = "play" => self'.round_total = self'.balloon_size
    ]_vars

C4_Witness ==
  /\ state_name = "play"
  /\ event = "K_RIGHT"
  /\ ~self.popped
  /\ self.balloon_size = 1
  /\ self.round_total = 1

\* C5: when a round has ended, the cumulative winnings are their value at round
\* entry plus zero or one times the round winnings, never more.
C5_CreditedOnce ==
  EndOfRound =>
    self.overall_total \in {ghost.overallAtEntry, ghost.overallAtEntry + self.round_total}

\* C6: a round in which a pump popped the balloon, and a round that ends in
\* Popped, leaves the cumulative winnings at their value at round entry.
C6_PopForfeits ==
  (EndOfRound /\ (ghost.popsInRound = 1 \/ state_name = "popped")) =>
    self.overall_total = ghost.overallAtEntry

\* The rounds that have left Play.
RoundsLeftPlay == ghost.playEntries - (IF state_name = "play" THEN 1 ELSE 0)

\* C7: a log row is written exactly when Play is left, so the rows are as many
\* as the rounds that have left Play (N once Exit is active), and the row holds
\* the round's state at that moment: pump count, cumulative winnings, popped
\* flag, tier, and the round winnings, or 0 if popped.
C7_RowPerRound ==
  [][/\ Len(io'.rows) = RoundsLeftPlay'
     /\ state_name' = "exit" => Len(io'.rows) = ghost'.num_rounds
     /\ io'.rows # io.rows => (state_name = "play" /\ state_name' # "play")
     /\ (state_name = "play" /\ state_name' # "play") =>
          io'.rows = Append(io.rows,
                            [num_keypresses  |-> self.balloon_size,
                             round_money_won |-> IF self.popped THEN 0 ELSE self.round_total,
                             total_money_won |-> self.overall_total,
                             popped          |-> self.popped,
                             risk            |-> self.risk])
    ]_vars

C7_Witness ==
  /\ state_name = "popped"
  /\ Len(io.rows) = 2
  /\ io.rows[2].popped
  /\ io.rows[2].num_keypresses = 1
  /\ io.rows[2].round_money_won = 0
  /\ io.rows[1].round_money_won = 1

LastRow == io.rows[Len(io.rows)]

\* C8: a round that goes to Popped is logged with popped = true and
\* round_money_won = 0, and a round that goes to Cashed with popped = false and
\* round_money_won equal to its pump count.
C8_RowMatchesOutcome ==
  /\ state_name = "popped" => (LastRow.popped /\ LastRow.round_money_won = 0)
  /\ state_name = "cashed" =>
       (~LastRow.popped /\ LastRow.round_money_won = LastRow.num_keypresses)

\* C9: a trigger is sent exactly on entering Popped (code 9) and Cashed
\* (code 7), so the triggers sent are as many as the rounds that have left Play,
\* and none is sent while the state stays start, setup, play or exit.
C9_TriggerPerRound ==
  [][/\ Len(io'.sent) = RoundsLeftPlay'
     /\ io'.sent # io.sent => (state_name' # state_name /\ state_name' \in {"popped", "cashed"})
     /\ (state_name' # state_name /\ state_name' = "popped") => io'.sent = Append(io.sent, 9)
     /\ (state_name' # state_name /\ state_name' = "cashed") => io'.sent = Append(io.sent, 7)
    ]_vars

C9_Witness ==
  /\ state_name = "cashed"
  /\ io.sent = <<9, 7>>

PumpStep == state_name = "play" /\ EventStep /\ event' = "K_RIGHT" /\ pc' # "crashed"

\* C11 as stated: a pump pops exactly when its draw is among the top X of the
\* ten values 1..10, X being the table entry read.
C11_TopXOfTen ==
  [][PumpStep => (self'.popped <=> draw' > DrawTop - TableEntry(self))]_vars

\* C11 amended: the draw is one of the X integers 11-X..10 and the pump pops
\* exactly when the draw is 10, so one of X outcomes pops.
C11_OneInX ==
  [][/\ (state_name = "play" /\ InRange(self.probs[self.risk], self.balloon_size)) =>
          /\ TableEntry(self) \in 1..10
          /\ Cardinality(Draws("K_RIGHT")) = TableEntry(self)
     /\ PumpStep =>
          /\ draw' \in (11 - TableEntry(self))..10
          /\ self'.popped <=> draw' = 10
    ]_vars

C11_Witness ==
  /\ state_name = "play"
  /\ event = "K_RIGHT"
  /\ self.probs[self.risk][1] = 4
  /\ self.balloon_size = 1
  /\ draw = 8
  /\ ~self.popped

\* C12 as stated: with the table entry 10 a pump pops whatever the draw.
C12_TenAlwaysPops ==
  [][(PumpStep /\ TableEntry(self) = 10) => self'.popped]_vars

\* C12 amended: with the table entry 10 the draw is one of 1..10, the pump pops
\* when it is 10 and succeeds, growing the balloon, for the nine others.
C12_TenPopsOnTen ==
  [][(PumpStep /\ TableEntry(self) = 10) =>
       /\ draw' \in 1..10
       /\ self'.popped <=> draw' = 10
       /\ draw' # 10 => self'.balloon_size = self.balloon_size + 1
    ]_vars

C12_Witness ==
  /\ state_name = "play"
  /\ event = "K_RIGHT"
  /\ self.risk = "high"
  /\ self.probs["high"] = <<10, 1>>
  /\ self.balloon_size = 1
  /\ draw = 1
  /\ ~self.popped

Closed == io.socket = "closed" /\ io.csv_file = "closed"

\* C13: entering Exit closes the socket and the log file that Setup opened,
\* each once and only there, and once they are closed no row is written and no
\* trigger is sent.
C13_ClosedAtExit ==
  [][/\ (state_name # "exit" /\ state_name' = "exit") =>
          /\ io.socket = "open"
          /\ io.csv_file = "open"
          /\ io'.closes = [socket |-> 1, csv_file |-> 1]
     /\ state_name' = "exit" => Closed'
     /\ io'.closes # io.closes => (state_name # "exit" /\ state_name' = "exit")
     /\ (io.socket = "closed" \/ io.csv_file = "closed") => io' = io
    ]_vars

C13_Witness ==
  /\ state_name = "exit"
  /\ Closed
  /\ io.closes = [socket |-> 1, csv_file |-> 1]
  /\ Len(io.rows) = 2
  /\ Len(io.sent) = 2
  /\ event = "K_LEFT"
  /\ drained = 2

\* C14: when the main loop has ended after Setup opened the socket and the log
\* file, both have been closed, each once.
C14_ClosedAtLoopEnd ==
  (pc = "terminated" /\ io.socket # "unopened") =>
    (Closed /\ io.closes = [socket |-> 1, csv_file |-> 1])

\* C15: once an event has ended the round (Play's done is set), an event queued
\* behind it in the same tick is not handled by Play: it changes neither the
\* pump count, the winnings, the popped and cashed flags, the cumulative
\* winnings nor the choice of the next state.
C15_NoEventAfterDone ==
  [][(state_name = "play" /\ flag["play"].done /\ EventStep) =>
       (self' = self /\ flag'["play"] = flag["play"])
    ]_vars

\* C16: after a QUIT event handled while the round had not ended, the round is
\* not logged and Play is not left, whatever follows QUIT in the queue.
C16_QuitNeverLogs ==
  [][(state_name = "play" /\ ghost.quitInRound = 1) =>
       (io'.rows = io.rows /\ state_name' = "play")
    ]_vars

C18_RoundEnds ==
  [][/\ (state_name = "play" /\ ~flag["play"].done /\ flag'["play"].done) =>
          /\ EventStep
          /\ \/ event' = "K_LEFT"
             \/ event' = "K_RIGHT" /\ draw' = 10 /\ self'.popped
     /\ (state_name = "play" /\ state_name' # "play") => (UpdateStep /\ flag["play"].done)
     /\ (state_name = "play" /\ EventStep /\ event' \notin {"K_LEFT", "K_RIGHT"}) =>
          (self' = self /\ flag'["play"] = flag["play"])
     /\ (state_name = "play" /\ UpdateStep /\ ~flag["play"].done) =>
          (state_name' = "play" /\ self' = self /\ flag'["play"] = flag["play"])
    ]_vars

C18_Witness ==
  /\ state_name = "play"
  /\ event = "K_LEFT"
  /\ flag["play"].done
  /\ flag["play"].next = "cashed"
  /\ self.round_total = 1

\* C19: the schedule and the table stay what Setup made them, Popped and
\* Cashed receive the cumulative winnings of the Play exit and its counter less
\* one, and hand both unchanged to the next Play entry or keep them, whatever
\* the keys.
C19_CarriedUnchanged ==
  [][/\ (state_name = "setup" /\ state_name' = "play") =>
          /\ self'.round_risks = self.round_risks
          /\ self'.probs = self.probs
          /\ self'.overall_total = 0
     /\ (InRound /\ InRound') =>
          /\ self'.round_risks = self.round_risks
          /\ self'.probs = self.probs
     /\ (state_name = "play" /\ EndOfRound') =>
          /\ self'.overall_total = self.overall_total
          /\ self'.num_rounds_left = self.num_rounds_left - 1
     /\ (EndOfRound /\ InRound') =>
          /\ self'.overall_total = self.overall_total
          /\ self'.num_rounds_left = self.num_rounds_left
    ]_vars

C19_Witness ==
  /\ state_name = "play"
  /\ flag["play"].previous = "cashed"
  /\ ghost.playEntries = 2
  /\ self.overall_total = 1
  /\ self.num_rounds_left = 1

\* The attributes of the exiting state that the entered state holds under the
\* same name.
SameAttrs(names) == \A a \in names : self'[a] = self[a]

Session == {"user_ID", "socket", "csv_file", "csv_writer", "probs", "overall_total",
            "round_risks", "active_response"}

\* C20: on every transition the payload of exit() has the length enter()
\* unpacks (3, 9, 12, 9) and its fields arrive under their own names; towards
\* Exit positions 1..3 are the socket, the file and the writer; no transition
\* fails.
C20_PayloadShapes ==
  [][/\ pc' # "crashed"
     /\ state_name' # state_name =>
          LET args == exit(state_name, self, io).args IN
          /\ state_name = "start" =>
               /\ Len(args) = 3
               /\ SameAttrs({"user_ID", "num_rounds", "active_response"})
          /\ state_name = "setup" =>
               /\ Len(args) = 9
               /\ SameAttrs(Session)
               /\ self'.num_rounds_left = self.num_rounds
          /\ state_name = "play" =>
               /\ Len(args) = 12
               /\ SameAttrs(Session \cup {"round_total", "balloon_size", "risk"})
               /\ self'.num_rounds_left = self.num_rounds_left - 1
          /\ (EndOfRound /\ state_name' = "play") =>
               /\ Len(args) = 9
               /\ SameAttrs(Session \cup {"num_rounds_left"})
          /\ (EndOfRound /\ state_name' = "exit") =>
               /\ <<args[2], args[3], args[4]>> = <<"socket", "csv_file", "csv_writer">>
               /\ SameAttrs({"socket", "csv_file", "csv_writer"})
               /\ DOMAIN self' = {"socket", "csv_file", "csv_writer"}
    ]_vars

C20_Witness ==
  /\ state_name = "exit"
  /\ self = [socket |-> "socket", csv_file |-> "csv_file", csv_writer |-> "csv_writer"]
  /\ flag["exit"].previous = "popped"
  /\ ghost.playEntries = 2

\* C21: the table entry X a pump of Play reads lies in 1..10, the draw is one
\* of exactly the X integers 10-X+1 .. 10, exactly one of them, the value 10,
\* pops, and the pump just dispatched popped exactly when its draw was 10.
C21_OneOutcomeOfX ==
  state_name = "play" =>
    /\ pc # "crashed"
    /\ InRange(self.probs[self.risk], self.balloon_size)
    /\ LET X == TableEntry(self) IN
       /\ X \in 1..DrawTop
       /\ Draws("K_RIGHT") = (DrawTop - X + 1)..DrawTop
       /\ Cardinality(Draws("K_RIGHT")) = X
       /\ {d \in Draws("K_RIGHT") : Pops(d)} = {DrawTop}
    /\ event = "K_RIGHT" =>
         LET read == IF self.popped THEN self.balloon_size ELSE self.balloon_size - 1
             X == PyIndex(self.probs[self.risk], read) IN
         /\ draw \in (DrawTop - X + 1)..DrawTop
         /\ self.popped <=> draw = DrawTop

C21_Witness ==
  /\ state_name = "play"
  /\ event = "K_RIGHT"
  /\ self.probs[self.risk] = <<7, 1>>
  /\ self.balloon_size = 0
  /\ draw = 10
  /\ self.popped
  /\ Cardinality(DrawRange(7)) = 7

\* C22: whenever the while loop of populateRisks asks for an index, the output
\* still has an empty slot, and with a fair random source the function
\* returns, for every N >= 1.
C22_Terminates ==
  /\ [](pr.pc = "while" /\ ~pr.valid => EmptySlots(pr.output) # {})
  /\ <>(pr.pc = "returned")

C22_Witness ==
  /\ pr.pc = "while"
  /\ ~pr.valid
  /\ pr.num_rounds = 4
  /\ pr.index = 0
  /\ pr.output = <<"high", None, "medium", "medium">>
  /\ pr.i = 2

\* The last index of the list of the round's tier, where extractProb put the
\* sentinel.
SentinelIndex == Len(self.probs[self.risk]) - 1

\* C23: in Play the pump count never exceeds the sentinel index of the
\* round's tier, so the table entry a pump reads exists and no pump fails, and
\* the round's successful pumps number at most that index; pumps dispatched
\* after a pop in the same tick included.
C23_PumpCountBounded ==
  /\ pc # "crashed"
  /\ state_name = "play" =>
       /\ self.balloon_size \in 0..SentinelIndex
       /\ InRange(self.probs[self.risk], self.balloon_size)
       /\ self.round_total <= SentinelIndex
       /\ self.balloon_size = SentinelIndex => DrawRange(TableEntry(self)) = {DrawTop}

C23_Witness ==
  /\ state_name = "play"
  /\ self.balloon_size = SentinelIndex
  /\ SentinelIndex = 1
  /\ drained = 2
  /\ event = "K_RIGHT"
  /\ self.popped
  /\ flag["play"].done
  /\ ghost.popsInRound = 1

\* The sum of round_money_won over the first k rows of the log.
RECURSIVE RoundMoneyUpTo(_)
RoundMoneyUpTo(k) ==
  IF k = 0 THEN 0 ELSE RoundMoneyUpTo(k - 1) + io.rows[k].round_money_won

\* C24: in every row of the log total_money_won is the sum of round_money_won
\* over the rows up to and including it, so total_money_won never decreases
\* from one row to the next.
C24_TotalsConsistent ==
  \A k \in 1..Len(io.rows) :
    /\ io.rows[k].total_money_won = RoundMoneyUpTo(k)
    /\ k > 1 => io.rows[k].total_money_won >= io.rows[k - 1].total_money_won

====
